---------------------------- MODULE Spec2Model ----------------------------
(***************************************************************************)
(* Model of the mdformat VS Code extension (src/src/extension.ts): the     *)
(* interpreter discovery of getPythonInterpreter, the module-level         *)
(* availability cache (mdformatFound, pythonPathUsedForLastCheck), the     *)
(* format provider provideDocumentFormattingEdits with its two child       *)
(* processes and the argument list of the formatter, the                   *)
(* "mdformat.checkInstallation" command and the                            *)
(* onDidChangeExecutionDetails listener.                                    *)
(*                                                                         *)
(* Scheduling follows the JavaScript event loop.  A step of the model is   *)
(* one run-to-completion piece of a handler.  A continuation that follows  *)
(* an await of an already settled promise is a microtask: it runs before   *)
(* any task of the loop (child process events, exec callbacks, the         *)
(* completion of the plugin's activation, the calls and events VS Code     *)
(* delivers), so those are disabled while a microtask is pending.  The     *)
(* exec callback of the availability check resolves the promise the caller *)
(* awaits, and nothing else is queued in that turn of the loop, so the     *)
(* callback and the caller's continuation form one step.                   *)
(***************************************************************************)
EXTENDS Integers, Sequences, FiniteSets, TLC

\* ------------------------------------------------------------------ bounds

\* Number of format requests that may be in flight at the same time.
NumRequests == 2
\* Longest document text and longest standard output of the tool.
MaxTextLen == 1
\* Longest standard error text of the tool.
MaxStderrLen == 2

\* ------------------------------------------------------------- JS values

\* JavaScript's undefined / null, for values that are otherwise strings.
Undefined == "undefined"

\* A falsy string-or-undefined value: `!x`.
Falsy(x) == x = Undefined \/ x = ""

Requests == 1..NumRequests

\* The request slot of the specification with one format request at a time.
SoloRequests == {1}

\* The request slots of the specification that compares two format requests.
PairRequests == {1, 2}

\* ------------------------------------------------------------ environment

\* Values the "mdformat.pythonPath" setting takes in the model: unset (null),
\* the empty string, blanks only, the literal "null", a file that exists,
\* a file that does not, and two more that do not exist: the path of a
\* deleted environment the plugin still reports, and a bare command name.
ConfigValues ==
    {Undefined, "", "  ", "null", "/opt/py", "/missing/py", "/venv/py", "python"}

\* Files that exist on disk (fs.accessSync succeeds).
OnDisk == {"/opt/py"}

\* userPythonPath.trim() !== ""
TrimmedNonEmpty(s) == s \notin {"", "  "}

\* Values of executionDetails.execCommand reported by ms-python.python.
ExecCommands == {<< >>, <<"/venv/py">>, <<"/venv2/py", "-u">>, <<"">>}

\* The version probe of a command `"<cmd>" --version`: it throws or it
\* yields the text printed, as a sequence of characters.
ProbeThrows == <<"!">>
ProbeOutputs ==
    { ProbeThrows,
      <<"P", "y", "t", "h", "o", "n", " ", "3">>,
      <<"P", "Y", "T", "H", "O", "N">>,
      <<"p", "y", "p", "y">>,
      << >> }

\* String.prototype.toLowerCase on the letters that matter.
LowerChar(c) ==
    CASE c = "P" -> "p" [] c = "Y" -> "y" [] c = "T" -> "t"
      [] c = "H" -> "h" [] c = "O" -> "o" [] c = "N" -> "n"
      [] OTHER -> c

ToLowerCase(s) == [i \in 1..Len(s) |-> LowerChar(s[i])]

\* String.prototype.includes
Includes(s, sub) ==
    \E i \in 1..(Len(s) + 1) :
        /\ i + Len(sub) - 1 <= Len(s)
        /\ SubSeq(s, i, i + Len(sub) - 1) = sub

PythonWord == <<"p", "y", "t", "h", "o", "n">>

\* const commonPythons = isWindows ? [...] : [...]
CommonPythons(windows) ==
    IF windows THEN <<"python.exe", "python3.exe", "py.exe">>
               ELSE <<"python3", "python">>

AllCommands == {"python.exe", "python3.exe", "py.exe", "python3", "python"}

\* Every value a resolved interpreter can take.
Interpreters ==
    (ConfigValues \cap OnDisk) \cup {c[1] : c \in ExecCommands \ {<< >>}}
        \cup AllCommands \cup {Undefined}

\* --------------------------------------------------- getPythonInterpreter

\* Step 1: the setting is tried when it is set, not blank and not "null".
ConfigIsTried(cfg) == cfg # Undefined /\ cfg # "" /\ TrimmedNonEmpty(cfg) /\ cfg # "null"

\* Step 1 returns the setting when the file exists.
ConfigIsUsable(cfg) == ConfigIsTried(cfg) /\ cfg \in OnDisk

\* A mutant of ProbeFinds: the output is searched as printed.
ProbeFinds_CaseSensitive(out) ==
    /\ out # ProbeThrows
    /\ Includes(out, PythonWord)

\* for (const pyCmd of commonPythons): the probe of one command succeeds.
ProbeFinds(out) ==
    /\ out # ProbeThrows
    /\ Includes(ToLowerCase(out), PythonWord)

RECURSIVE FirstCommon(_, _, _)
FirstCommon(cmds, probes, i) ==
    IF i > Len(cmds) THEN Undefined
    ELSE IF ProbeFinds(probes[cmds[i]]) THEN cmds[i]
    ELSE FirstCommon(cmds, probes, i + 1)

\* Step 3: the first common executable whose probe prints the name.
GlobalPython(windows, probes) == FirstCommon(CommonPythons(windows), probes, 1)

\* Step 2 once the plugin's activation state is settled: its first
\* execCommand entry when it is active with exports.settings and reports a
\* non-empty command, else step 3.
FromExtension(ext, cmd, windows, probes) ==
    IF ext = "active" /\ Len(cmd) > 0 THEN cmd[1]
    ELSE GlobalPython(windows, probes)

\* getPythonInterpreter suspends in `await pythonExtension.activate()` when
\* step 1 fails and the plugin is installed and still activating.
ResolutionAwaitsActivation(cfg, ext) == ~ConfigIsUsable(cfg) /\ ext = "activating"

\* A mutant of GetPythonInterpreter: the setting is returned without the
\* test of the file.
GetPythonInterpreter_NoDiskCheck(cfg, ext, cmd, windows, probes) ==
    IF ConfigIsTried(cfg) THEN cfg
    ELSE FromExtension(ext, cmd, windows, probes)

\* The value getPythonInterpreter returns when it does not suspend, and the
\* value it returns after the suspension (the setting is read before it).
GetPythonInterpreter(cfg, ext, cmd, windows, probes) ==
    IF ConfigIsUsable(cfg) THEN cfg
    ELSE FromExtension(ext, cmd, windows, probes)

\* ------------------------------------------------------- availability cache

\* A mutant of NeedsCheck: a previous failure is not retried.
NeedsCheck_NoRetry(found, lastPath, current) ==
    found = Undefined \/ lastPath # current

\* A mutant of NeedsCheck: `!==` for `===` in the first test.
NeedsCheck_Inverted(found, lastPath, current) ==
    found # Undefined \/ lastPath # current \/ found = "false"

\* const needsCheck = ..., lines 253-256.
NeedsCheck(found, lastPath, current) ==
    found = Undefined \/ lastPath # current \/ found = "false"

\* ------------------------------------------------------------ child process

NoSignal == "null"
NoCode == "null"

\* spawn failure: Node emits 'error' and then 'close' with the negative errno
\* (ENOENT, EACCES) as the code.
SpawnErrnos == {-2, -13}

Chars == {"a"}
White == {"\n"}

RECURSIVE SeqsUpTo(_, _)
SeqsUpTo(S, n) ==
    IF n = 0 THEN {<< >>}
    ELSE LET shorter == SeqsUpTo(S, n - 1)
         IN  shorter \cup {Append(s, c) : s \in {t \in shorter : Len(t) = n - 1}, c \in S}

Texts == SeqsUpTo(Chars \cup White, MaxTextLen)
StderrTexts == SeqsUpTo(Chars \cup White, MaxStderrLen)

RECURSIVE TrimStart(_)
TrimStart(s) ==
    IF Len(s) > 0 /\ Head(s) \in White THEN TrimStart(Tail(s)) ELSE s

RECURSIVE TrimEnd(_)
TrimEnd(s) ==
    IF Len(s) > 0 /\ s[Len(s)] \in White THEN TrimEnd(SubSeq(s, 1, Len(s) - 1)) ELSE s

\* String.prototype.trim
Trim(s) == TrimEnd(TrimStart(s))

\* `${code}`
CodeStr(c) ==
    CASE c = 0 -> "0" [] c = 1 -> "1" [] c = 2 -> "2" [] c = 3 -> "3"
      [] c = -2 -> "-2" [] c = -13 -> "-13" [] OTHER -> "?"

\* `mdformat exited with code ${code}`
ExitedWithCode(code) == <<"mdformat exited with code ", CodeStr(code)>>

\* A mutant of DetailedError: stderr is not trimmed.
DetailedError_Untrimmed(stderr, code) ==
    IF stderr # << >> THEN stderr
    ELSE ExitedWithCode(code) \o <<". Check \"Output > mdformat\" for details.">>

\* let detailedError = stderr.trim(); if (!detailedError) detailedError = ...
DetailedError(stderr, code) ==
    IF Trim(stderr) # << >> THEN Trim(stderr)
    ELSE ExitedWithCode(code) \o <<". Check \"Output > mdformat\" for details.">>

\* ---------------------------------------------------------------- messages

ErrNoInterpreter ==
    [sink |-> "error", text |-> <<"mdformat: Cannot format. No Python interpreter found.">>]

\* showMdformatNotAvailableError(attemptedPythonPath)
ShowMdformatNotAvailableError(attempted) ==
    [sink |-> "error",
     text |-> IF Falsy(attempted)
              THEN <<"mdformat was not found using ", "your Python environment">>
              ELSE <<"mdformat was not found using ", "the Python interpreter ", attempted>>]

ErrFailedToStart(python) ==
    [sink |-> "error", text |-> <<"mdformat failed to start. Is valid Python path? ", python>>]

ErrSignal(signal) ==
    [sink |-> "error", text |-> <<"mdformat process terminated unexpectedly (signal: ", signal, ")">>]

ErrFormattingFailed(stderr, code) ==
    [sink |-> "error", text |-> <<"mdformat formatting failed: ">> \o DetailedError(stderr, code)]

InfoCannotCheck ==
    [sink |-> "info", text |-> <<"Cannot check mdformat: No Python interpreter selected or configured">>]

InfoAvailable(python) ==
    [sink |-> "info", text |-> <<"mdformat is available with: ", python>>]

\* vscode.TextEdit.replace(fullRange, stdout)
FullReplace(original, stdout) ==
    [from |-> 0, to |-> Len(original), newText |-> stdout]

\* ----------------------------------------------------- formatter arguments

\* A value of the "mdformat.wrap" setting: a string or a number.
WrapString(s) == [type |-> "string", str |-> s, num |-> 0]
WrapNumber(n) == [type |-> "number", str |-> "", num |-> n]

WrapValues == {WrapString("keep"), WrapString("no"), WrapNumber(88), WrapNumber(0)}
EndOfLineValues == {"keep", "lf", "crlf"}
CustomArgs == {<< >>, <<"--number">>, <<"--number", "-">>, <<"-", "--number">>}

Options ==
    [wrap : WrapValues, endOfLine : EndOfLineValues, noValidate : BOOLEAN, args : CustomArgs]

\* The settings nobody has edited: wrap "keep", endOfLine "keep", noValidate false, args [].
DefaultOptions ==
    [wrap |-> WrapString("keep"), endOfLine |-> "keep", noValidate |-> FALSE, args |-> << >>]

\* String(n) of the numbers in WrapValues
NumberToString(n) ==
    CASE n = 0 -> "0"
      [] n = 88 -> "88"

\* String(wrap)
String(wrap) == IF wrap.type = "number" THEN NumberToString(wrap.num) ELSE wrap.str

\* wrap !== "keep" || typeof wrap === "number"
WrapIsPassed(wrap) ==
    \/ ~(wrap.type = "string" /\ wrap.str = "keep")
    \/ wrap.type = "number"

BuildArgs_ValidateBeforeEndOfLine(o) ==
    <<"-m", "mdformat">>
    \o (IF WrapIsPassed(o.wrap) THEN <<"--wrap", String(o.wrap)>> ELSE << >>)
    \o (IF o.noValidate THEN <<"--no-validate">> ELSE << >>)
    \o <<"--end-of-line", o.endOfLine>>
    \o o.args
    \o <<"-">>

\* const args = ["-m", "mdformat"]; ... args.push("-")
BuildArgs(o) ==
    <<"-m", "mdformat">>
    \o (IF WrapIsPassed(o.wrap) THEN <<"--wrap", String(o.wrap)>> ELSE << >>)
    \o <<"--end-of-line", o.endOfLine>>
    \o (IF o.noValidate THEN <<"--no-validate">> ELSE << >>)
    \o o.args
    \o <<"-">>

\* ------------------------------------------------------------------- state

VARIABLES
    mdformatFound,                \* Undefined | "true" | "false"
    pythonPathUsedForLastCheck,   \* Undefined | interpreter
    userPythonPath,               \* the "mdformat.pythonPath" setting
    extState,                     \* ms-python.python: absent | activating | active | activeNoSettings | failed
    execCommand,                  \* the execCommand the plugin reports
    isWindows,
    options,                      \* the settings wrap, endOfLine, noValidate, args
    probeOutput,                  \* command -> output of its version probe
    pc,                           \* per format request: where the call stands
    interp,                       \* currentInterpreterForFormatting
    exe,                          \* pythonExecutableForMdformat
    cancelled,                    \* token.isCancellationRequested
    outcome,                      \* how the call's promise settled
    edits,                        \* the TextEdit[] the call resolved with
    shown,                        \* notifications raised by the call
    nCheck,                       \* availability-check subprocesses spawned by the call
    nFmt,                         \* formatting subprocesses spawned by the call
    originalText,                 \* document.getText()
    config,                       \* the settings as the call's getConfiguration returned them
    args,                         \* the argument list of the formatting subprocess
    mpc,                          \* the checkInstallation command: where it stands
    minterp,                      \* interpreterToManuallyCheck
    mshown,                       \* notifications raised by the command
    availSince,                   \* history: runtime with an Available verdict of a format call, only format calls since
    changePending,                \* history: a plugin change event with no check spawned and no format request started since
    afterChange                   \* history: the request is the first one started after a plugin change event

cache == <<mdformatFound, pythonPathUsedForLastCheck>>
env == <<userPythonPath, extState, execCommand, isWindows, options, probeOutput>>
call == <<pc, interp, exe, cancelled, outcome, edits, shown, nCheck, nFmt, originalText,
          config, args>>
manual == <<mpc, minterp, mshown>>
history == <<availSince, changePending, afterChange>>
vars == <<cache, env, call, manual, history>>


\* ----------------------------------------------------------------- outcomes

Unsettled == "none"
NoRuntime == "NoRuntime"
ToolUnavailable == "ToolUnavailable"
ProcessStartFailure == "ProcessStartFailure"
Cancelled == "Cancelled"
TerminatedBySignal == "TerminatedBySignal"
ToolReportedFailure == "ToolReportedFailure"
Success == "Success"

\* A promise settles once: a later resolve or reject changes nothing.
Settle(old, new) == IF old = Unsettled THEN new ELSE old

\* ------------------------------------------------------------- environments

\* Settings, plugin reports and probe results of the concurrent specification.
MainConfigValues == {Undefined, "/opt/py"}
MainExecCommands == {<< >>, <<"/venv/py">>}
NoPython == [c \in AllCommands |-> ProbeThrows]
PythonOnPath == [c \in AllCommands |-> IF c = "python" THEN <<"P", "y", "t", "h", "o", "n", " ", "3">> ELSE ProbeThrows]
MainProbes == {NoPython, PythonOnPath}

ExitCodes == {0, 1}
Signals == {"SIGTERM"}

\* What a process that ran ends with.  The whole range of the text a case
\* reports (stdout after code 0, stderr after another code) is drawn, with
\* a short range for the other stream.
ShortTexts == {<< >>, <<"a">>}
ExitEvents ==
    {[code |-> 0, stdout |-> o, stderr |-> e] : o \in Texts, e \in ShortTexts}
        \cup {[code |-> c, stdout |-> o, stderr |-> e] :
                   c \in ExitCodes \ {0}, o \in ShortTexts, e \in StderrTexts}
KillEvents ==
    {[signal |-> s, stdout |-> o, stderr |-> e] :
         s \in Signals, o \in ShortTexts, e \in ShortTexts}

\* No request and no manual check is running, nothing has been shown.
NothingRunning ==
    /\ pc = [r \in Requests |-> "idle"]
    /\ interp = [r \in Requests |-> Undefined]
    /\ exe = [r \in Requests |-> Undefined]
    /\ cancelled = [r \in Requests |-> FALSE]
    /\ outcome = [r \in Requests |-> Unsettled]
    /\ edits = [r \in Requests |-> << >>]
    /\ shown = [r \in Requests |-> << >>]
    /\ nCheck = [r \in Requests |-> 0]
    /\ nFmt = [r \in Requests |-> 0]
    /\ originalText = [r \in Requests |-> << >>]
    /\ config = [r \in Requests |-> DefaultOptions]
    /\ args = [r \in Requests |-> << >>]
    /\ mpc = "idle"
    /\ minterp = Undefined
    /\ mshown = << >>
    /\ availSince = Undefined
    /\ changePending = FALSE
    /\ afterChange = [r \in Requests |-> FALSE]

\* The state after activate(): the cache is empty, no request is running.
\* activate() has called pythonExtension.activate() when the plugin was
\* installed and inactive, so the plugin is absent, active or activating.
Init ==
    /\ mdformatFound = Undefined
    /\ pythonPathUsedForLastCheck = Undefined
    /\ userPythonPath \in MainConfigValues
    /\ extState \in {"absent", "activating", "active"}
    /\ execCommand \in (IF extState = "absent" THEN {<< >>} ELSE MainExecCommands)
    /\ isWindows = FALSE
    /\ options = DefaultOptions
    /\ probeOutput \in MainProbes
    /\ NothingRunning

\* A continuation queued as a microtask: it runs before any task of the loop.
MicrotaskPending ==
    \/ \E r \in Requests : pc[r] = "resolved"
    \/ \E r \in Requests : pc[r] = "awaitActivate" /\ extState # "activating"
    \/ mpc = "resolved"
    \/ mpc = "awaitActivate" /\ extState # "activating"

\* ------------------------------------------- provideDocumentFormattingEdits

\* The provider is called: lines 232-238 up to the first await.
StartFormat(r) ==
    /\ pc[r] \in {"idle", "done"}
    /\ ~MicrotaskPending
    /\ IF ResolutionAwaitsActivation(userPythonPath, extState)
       THEN /\ pc' = [pc EXCEPT ![r] = "awaitActivate"]
            /\ interp' = [interp EXCEPT ![r] = Undefined]
       ELSE /\ pc' = [pc EXCEPT ![r] = "resolved"]
            /\ interp' = [interp EXCEPT ![r] =
                   GetPythonInterpreter(userPythonPath, extState, execCommand, isWindows, probeOutput)]
    /\ exe' = [exe EXCEPT ![r] = Undefined]
    /\ cancelled' = [cancelled EXCEPT ![r] = FALSE]
    /\ outcome' = [outcome EXCEPT ![r] = Unsettled]
    /\ edits' = [edits EXCEPT ![r] = << >>]
    /\ shown' = [shown EXCEPT ![r] = << >>]
    /\ nCheck' = [nCheck EXCEPT ![r] = 0]
    /\ nFmt' = [nFmt EXCEPT ![r] = 0]
    /\ originalText' = [originalText EXCEPT ![r] = << >>]
    /\ config' = [config EXCEPT ![r] = options]
    /\ args' = [args EXCEPT ![r] = << >>]
    /\ afterChange' = [afterChange EXCEPT ![r] = changePending]
    /\ changePending' = FALSE
    /\ UNCHANGED <<cache, env, manual, availSince>>

\* getPythonInterpreter resumes after `await pythonExtension.activate()`.
ResumeResolution(r) ==
    /\ pc[r] = "awaitActivate"
    /\ extState # "activating"
    /\ pc' = [pc EXCEPT ![r] = "resolved"]
    /\ interp' = [interp EXCEPT ![r] = FromExtension(extState, execCommand, isWindows, probeOutput)]
    /\ UNCHANGED <<cache, env, manual, history, exe, cancelled, outcome, edits, shown,
                   nCheck, nFmt, originalText, config, args>>

\* Lines 271-274: the not-available error names `attempted`; no edit.
ReportNotAvailable(r, attempted) ==
    /\ shown' = [shown EXCEPT ![r] = Append(@, ShowMdformatNotAvailableError(attempted))]
    /\ outcome' = [outcome EXCEPT ![r] = Settle(@, ToolUnavailable)]
    /\ pc' = [pc EXCEPT ![r] = "done"]
    /\ UNCHANGED <<exe, nFmt, originalText, config, args>>

\* Lines 277-322 and 387-388: the formatting subprocess is spawned with
\* `python` and the document's text is written to its stdin.
SpawnFormatter(r, python) ==
    /\ exe' = [exe EXCEPT ![r] = python]
    /\ args' = [args EXCEPT ![r] = BuildArgs(config[r])]
    /\ \E text \in Texts : originalText' = [originalText EXCEPT ![r] = text]
    /\ nFmt' = [nFmt EXCEPT ![r] = @ + 1]
    /\ pc' = [pc EXCEPT ![r] = "formatting"]
    /\ UNCHANGED <<shown, outcome, config>>

\* A mutant of Invoke: the verdict is not looked at before the spawn.
Invoke_IgnoresVerdict(r, found, lastPath) ==
    IF Falsy(lastPath)
    THEN ReportNotAvailable(r, interp[r])
    ELSE SpawnFormatter(r, lastPath)

\* Lines 268-322 with the cache as (found, lastPath): the not-available
\* error, or the spawn of the formatting subprocess.
Invoke(r, found, lastPath) ==
    IF found # "true" \/ Falsy(lastPath)
    THEN ReportNotAvailable(r, IF Falsy(lastPath) THEN interp[r] ELSE lastPath)
    ELSE SpawnFormatter(r, lastPath)

\* A mutant of NoInterpreter: the failure is recorded in the cache, as lines
\* 142-143 do.
NoInterpreter_ClearsCache(r) ==
    /\ pc[r] = "resolved"
    /\ Falsy(interp[r])
    /\ shown' = [shown EXCEPT ![r] = Append(@, ErrNoInterpreter)]
    /\ outcome' = [outcome EXCEPT ![r] = Settle(@, NoRuntime)]
    /\ pc' = [pc EXCEPT ![r] = "done"]
    /\ afterChange' = [afterChange EXCEPT ![r] = FALSE]
    /\ mdformatFound' = "false"
    /\ pythonPathUsedForLastCheck' = Undefined
    /\ UNCHANGED <<env, manual, availSince, changePending, interp, cancelled, edits,
                   exe, nCheck, nFmt, originalText, config, args>>

\* Lines 240-247: no interpreter was found.
NoInterpreter(r) ==
    /\ pc[r] = "resolved"
    /\ Falsy(interp[r])
    /\ shown' = [shown EXCEPT ![r] = Append(@, ErrNoInterpreter)]
    /\ outcome' = [outcome EXCEPT ![r] = Settle(@, NoRuntime)]
    /\ pc' = [pc EXCEPT ![r] = "done"]
    /\ afterChange' = [afterChange EXCEPT ![r] = FALSE]
    /\ UNCHANGED <<cache, env, manual, availSince, changePending, interp, cancelled,
                   edits, exe, nCheck, nFmt, originalText, config, args>>

\* Lines 253-266: the check is needed; checkMdformatAvailability spawns
\* `"<interpreter>" -m mdformat --version` and the provider awaits it.
SpawnCheck(r) ==
    /\ pc[r] = "resolved"
    /\ ~Falsy(interp[r])
    /\ NeedsCheck(mdformatFound, pythonPathUsedForLastCheck, interp[r])
    /\ nCheck' = [nCheck EXCEPT ![r] = @ + 1]
    /\ pc' = [pc EXCEPT ![r] = "checking"]
    /\ afterChange' = [afterChange EXCEPT ![r] = FALSE]
    /\ changePending' = FALSE
    /\ UNCHANGED <<cache, env, manual, availSince, interp, cancelled, edits, exe, nFmt,
                   originalText, config, args, shown, outcome>>

\* Lines 253-322: no check is needed; on to the formatting subprocess.
CacheHit(r) ==
    /\ pc[r] = "resolved"
    /\ ~Falsy(interp[r])
    /\ ~NeedsCheck(mdformatFound, pythonPathUsedForLastCheck, interp[r])
    /\ Invoke(r, mdformatFound, pythonPathUsedForLastCheck)
    /\ afterChange' = [afterChange EXCEPT ![r] = FALSE]
    /\ UNCHANGED <<cache, env, manual, availSince, changePending, interp, cancelled,
                   edits, nCheck>>

\* The continuation after `await getPythonInterpreter`.
DecideCheck(r) == NoInterpreter(r) \/ SpawnCheck(r) \/ CacheHit(r)

\* A mutant of CheckCallback: the callback leaves the runtime of the last
\* check as another check recorded it.
CheckCallback_KeepsPath(r, ok) ==
    /\ pc[r] = "checking"
    /\ ~MicrotaskPending
    /\ pythonPathUsedForLastCheck' = pythonPathUsedForLastCheck
    /\ mdformatFound' = (IF ok THEN "true" ELSE "false")
    /\ Invoke(r, mdformatFound', pythonPathUsedForLastCheck')
    /\ availSince' = (IF ok THEN interp[r] ELSE availSince)
    /\ UNCHANGED <<env, manual, changePending, afterChange, interp, cancelled, edits, nCheck>>

\* A mutant of CheckCallback: the continuation takes the executable from
\* the runtime the cache held before the callback wrote it.
CheckCallback_StaleRuntime(r, ok) ==
    /\ pc[r] = "checking"
    /\ ~MicrotaskPending
    /\ pythonPathUsedForLastCheck' = interp[r]
    /\ mdformatFound' = (IF ok THEN "true" ELSE "false")
    /\ Invoke(r, mdformatFound', pythonPathUsedForLastCheck)
    /\ availSince' = (IF ok THEN interp[r] ELSE availSince)
    /\ UNCHANGED <<env, manual, changePending, afterChange, interp, cancelled, edits, nCheck>>

\* The exec callback of checkMdformatAvailability (lines 150-167) and the
\* continuation of the provider that awaits it (lines 268-322).
CheckCallback(r, ok) ==
    /\ pc[r] = "checking"
    /\ ~MicrotaskPending
    /\ pythonPathUsedForLastCheck' = interp[r]
    /\ mdformatFound' = (IF ok THEN "true" ELSE "false")
    /\ Invoke(r, mdformatFound', pythonPathUsedForLastCheck')
    /\ availSince' = (IF ok THEN interp[r] ELSE availSince)
    /\ UNCHANGED <<env, manual, changePending, afterChange, interp, cancelled, edits, nCheck>>

\* A mutant of ProcError: the cache is left as it was.
ProcError_KeepsVerdict(r) ==
    /\ pc[r] = "formatting"
    /\ ~MicrotaskPending
    /\ shown' = [shown EXCEPT ![r] = Append(@, ErrFailedToStart(exe[r]))]
    /\ outcome' = [outcome EXCEPT ![r] = Settle(@, ProcessStartFailure)]
    /\ pc' = [pc EXCEPT ![r] = "errored"]
    /\ UNCHANGED <<cache, env, manual, history, interp, exe, cancelled, edits, nCheck,
                   nFmt, originalText, config, args>>

\* A mutant of ProcError: the verdict is written without the runtime.
ProcError_VerdictOnly(r) ==
    /\ pc[r] = "formatting"
    /\ ~MicrotaskPending
    /\ shown' = [shown EXCEPT ![r] = Append(@, ErrFailedToStart(exe[r]))]
    /\ mdformatFound' = "false"
    /\ outcome' = [outcome EXCEPT ![r] = Settle(@, ProcessStartFailure)]
    /\ pc' = [pc EXCEPT ![r] = "errored"]
    /\ UNCHANGED <<pythonPathUsedForLastCheck, env, manual, history, interp, exe, cancelled,
                   edits, nCheck, nFmt, originalText, config, args>>

\* proc.on("error"), lines 333-341: the process could not be started.
ProcError(r) ==
    /\ pc[r] = "formatting"
    /\ ~MicrotaskPending
    /\ shown' = [shown EXCEPT ![r] = Append(@, ErrFailedToStart(exe[r]))]
    /\ mdformatFound' = "false"
    /\ pythonPathUsedForLastCheck' = exe[r]
    /\ outcome' = [outcome EXCEPT ![r] = Settle(@, ProcessStartFailure)]
    /\ pc' = [pc EXCEPT ![r] = "errored"]
    /\ UNCHANGED <<env, manual, history, interp, exe, cancelled, edits, nCheck, nFmt,
                   originalText, config, args>>

\* A mutant of CloseOutcome: the signal is looked at before the token.
CloseOutcome_SignalFirst(isCancelled, code, signal) ==
    IF signal # NoSignal THEN TerminatedBySignal
    ELSE IF isCancelled THEN Cancelled
    ELSE IF code # 0 THEN ToolReportedFailure
    ELSE Success

\* A mutant of CloseOutcome: the token is not looked at.
CloseOutcome_IgnoresToken(isCancelled, code, signal) ==
    IF signal # NoSignal THEN TerminatedBySignal
    ELSE IF code # 0 THEN ToolReportedFailure
    ELSE Success

\* The order of the tests of proc.on("close"), lines 344-385.
CloseOutcome(isCancelled, code, signal) ==
    IF isCancelled THEN Cancelled
    ELSE IF signal # NoSignal THEN TerminatedBySignal
    ELSE IF code # 0 THEN ToolReportedFailure
    ELSE Success

\* A mutant of FormatEdits: an empty output replaces the document.
FormatEdits_NoEmptyGuard(original, stdout) ==
    IF stdout # original THEN <<FullReplace(original, stdout)>> ELSE << >>

\* Lines 375-384: the edits of a successful run.
FormatEdits(original, stdout) ==
    IF Len(stdout) > 0 /\ stdout # original
    THEN <<FullReplace(original, stdout)>>
    ELSE << >>

\* The notification, if any, that proc.on("close") raises for a result.
CloseMessages(result, code, signal, stderr) ==
    IF result = TerminatedBySignal THEN <<ErrSignal(signal)>>
    ELSE IF result = ToolReportedFailure THEN <<ErrFormattingFailed(stderr, code)>>
    ELSE << >>

\* The body of proc.on("close") for (code, signal) with the accumulated
\* stdout and stderr.  resolve and reject act only on an unsettled promise.
OnClose(r, code, signal, stdout, stderr) ==
    LET result == CloseOutcome(cancelled[r], code, signal)
    IN  /\ shown' = [shown EXCEPT ![r] = @ \o CloseMessages(result, code, signal, stderr)]
        /\ outcome' = [outcome EXCEPT ![r] = Settle(@, result)]
        /\ edits' = [edits EXCEPT ![r] =
               IF result = Success /\ outcome[r] = Unsettled
               THEN FormatEdits(originalText[r], stdout)
               ELSE @]
        /\ pc' = [pc EXCEPT ![r] = "done"]
        /\ UNCHANGED <<cache, env, manual, history, interp, exe, cancelled, nCheck, nFmt,
                       originalText, config, args>>

\* 'close' of a process that ran: it exited with a code.
ProcExit(r, code, stdout, stderr) ==
    /\ pc[r] = "formatting"
    /\ ~MicrotaskPending
    /\ OnClose(r, code, NoSignal, stdout, stderr)

\* 'close' of a process that ran: a signal ended it.
ProcKilled(r, signal, stdout, stderr) ==
    /\ pc[r] = "formatting"
    /\ ~MicrotaskPending
    /\ OnClose(r, NoCode, signal, stdout, stderr)

\* 'close' after 'error': Node reports the negative errno as the code.
ProcCloseAfterError(r, errno) ==
    /\ pc[r] = "errored"
    /\ ~MicrotaskPending
    /\ OnClose(r, errno, NoSignal, << >>, << >>)

\* The caller raises the cancellation token of a call that has not settled.
Cancel(r) ==
    /\ pc[r] \in {"awaitActivate", "checking", "formatting"}
    /\ ~MicrotaskPending
    /\ ~cancelled[r]
    /\ cancelled' = [cancelled EXCEPT ![r] = TRUE]
    /\ UNCHANGED <<cache, env, manual, history, pc, interp, exe, outcome, edits, shown,
                   nCheck, nFmt, originalText, config, args>>

\* ------------------------------------------------------------ environment

\* A mutant of DidChangeExecutionDetails: the listener also forgets the
\* runtime of the last check.
DidChangeExecutionDetails_ClearsPath(cmd) ==
    /\ extState = "active"
    /\ ~MicrotaskPending
    /\ execCommand' = cmd
    /\ mdformatFound' = Undefined
    /\ pythonPathUsedForLastCheck' = Undefined
    /\ availSince' = Undefined
    /\ changePending' = TRUE
    /\ UNCHANGED <<userPythonPath, extState, isWindows, options, probeOutput, call, manual,
                   afterChange>>

\* The onDidChangeExecutionDetails listener registered by activate().
DidChangeExecutionDetails(cmd) ==
    /\ extState = "active"
    /\ ~MicrotaskPending
    /\ execCommand' = cmd
    /\ mdformatFound' = Undefined
    /\ availSince' = Undefined
    /\ changePending' = TRUE
    /\ UNCHANGED <<pythonPathUsedForLastCheck, userPythonPath, extState, isWindows, options,
                   probeOutput, call, manual, afterChange>>

\* pythonExtension.activate() settles: the plugin is active (with or without
\* exports.settings) or its activation failed.
ActivationCompletes(result) ==
    /\ extState = "activating"
    /\ ~MicrotaskPending
    /\ extState' = result
    /\ UNCHANGED <<cache, userPythonPath, execCommand, isWindows, options, probeOutput, call,
                   manual, history>>

\* The user edits the "mdformat.pythonPath" setting.
SetPythonPath(value) ==
    /\ userPythonPath # value
    /\ ~MicrotaskPending
    /\ userPythonPath' = value
    /\ availSince' = Undefined
    /\ UNCHANGED <<cache, extState, execCommand, isWindows, options, probeOutput, call, manual,
                   changePending, afterChange>>

\* -------------------------------------------- mdformat.checkInstallation

\* A mutant of CheckInstallation: the verdict is not reset.
CheckInstallation_KeepsVerdict ==
    /\ mpc \in {"idle", "done"}
    /\ ~MicrotaskPending
    /\ mdformatFound' = mdformatFound
    /\ IF ResolutionAwaitsActivation(userPythonPath, extState)
       THEN /\ mpc' = "awaitActivate"
            /\ minterp' = Undefined
       ELSE /\ mpc' = "resolved"
            /\ minterp' = GetPythonInterpreter(userPythonPath, extState, execCommand,
                                               isWindows, probeOutput)
    /\ mshown' = << >>
    /\ availSince' = Undefined
    /\ changePending' = FALSE
    /\ UNCHANGED <<pythonPathUsedForLastCheck, env, call, afterChange>>

\* The command is run: lines 399-403 up to the first await.
CheckInstallation ==
    /\ mpc \in {"idle", "done"}
    /\ ~MicrotaskPending
    /\ mdformatFound' = Undefined
    /\ IF ResolutionAwaitsActivation(userPythonPath, extState)
       THEN /\ mpc' = "awaitActivate"
            /\ minterp' = Undefined
       ELSE /\ mpc' = "resolved"
            /\ minterp' = GetPythonInterpreter(userPythonPath, extState, execCommand,
                                               isWindows, probeOutput)
    /\ mshown' = << >>
    /\ availSince' = Undefined
    /\ changePending' = FALSE
    /\ UNCHANGED <<pythonPathUsedForLastCheck, env, call, afterChange>>

ManualResumeResolution ==
    /\ mpc = "awaitActivate"
    /\ extState # "activating"
    /\ mpc' = "resolved"
    /\ minterp' = FromExtension(extState, execCommand, isWindows, probeOutput)
    /\ UNCHANGED <<cache, env, call, history, mshown>>

\* Lines 405-416: no interpreter, or the availability check is spawned.
ManualDecide ==
    /\ mpc = "resolved"
    /\ IF Falsy(minterp)
       THEN /\ mshown' = <<InfoCannotCheck, ShowMdformatNotAvailableError(Undefined)>>
            /\ mpc' = "done"
            /\ UNCHANGED changePending
       ELSE /\ mpc' = "checking"
            /\ changePending' = FALSE
            /\ UNCHANGED mshown
    /\ UNCHANGED <<cache, env, call, minterp, availSince, afterChange>>

\* The exec callback of the command's check and lines 417-424.
ManualCheckCallback(ok) ==
    /\ mpc = "checking"
    /\ ~MicrotaskPending
    /\ pythonPathUsedForLastCheck' = minterp
    /\ mdformatFound' = (IF ok THEN "true" ELSE "false")
    /\ mshown' = <<IF ok /\ ~Falsy(minterp)
                   THEN InfoAvailable(minterp)
                   ELSE ShowMdformatNotAvailableError(minterp)>>
    /\ mpc' = "done"
    /\ availSince' = Undefined
    /\ UNCHANGED <<env, call, minterp, changePending, afterChange>>

\* ----------------------------------------------------------- specification

Next ==
    \/ \E r \in SoloRequests : StartFormat(r)
    \/ \E r \in SoloRequests : ResumeResolution(r)
    \/ \E r \in SoloRequests : DecideCheck(r)
    \/ \E r \in SoloRequests, ok \in BOOLEAN : CheckCallback(r, ok)
    \/ \E r \in SoloRequests : ProcError(r)
    \/ \E r \in SoloRequests, e \in ExitEvents : ProcExit(r, e.code, e.stdout, e.stderr)
    \/ \E r \in SoloRequests, e \in KillEvents : ProcKilled(r, e.signal, e.stdout, e.stderr)
    \/ \E r \in SoloRequests, errno \in SpawnErrnos : ProcCloseAfterError(r, errno)
    \/ \E r \in SoloRequests : Cancel(r)
    \/ \E cmd \in MainExecCommands : DidChangeExecutionDetails(cmd)
    \/ \E result \in {"active", "activeNoSettings", "failed"} : ActivationCompletes(result)
    \/ \E value \in MainConfigValues : SetPythonPath(value)
    \/ CheckInstallation
    \/ ManualResumeResolution
    \/ ManualDecide
    \/ \E ok \in BOOLEAN : ManualCheckCallback(ok)

Spec == Init /\ [][Next]_vars

\* Two format requests in flight at once: VS Code calls the provider again
\* while an earlier call awaits its subprocess, and the manual check runs
\* beside them.  The plugin is active and the formatter writes nothing to
\* stderr.
ConcurrentExitEvents == {e \in ExitEvents : e.stderr = << >>}

InitConcurrent ==
    /\ Init
    /\ extState = "active"

NextConcurrent ==
    \/ \E r \in Requests : StartFormat(r)
    \/ \E r \in Requests : DecideCheck(r)
    \/ \E r \in Requests, ok \in BOOLEAN : CheckCallback(r, ok)
    \/ \E r \in Requests : ProcError(r)
    \/ \E r \in Requests, e \in ConcurrentExitEvents : ProcExit(r, e.code, e.stdout, e.stderr)
    \/ \E r \in Requests, errno \in SpawnErrnos : ProcCloseAfterError(r, errno)
    \/ \E cmd \in MainExecCommands : DidChangeExecutionDetails(cmd)
    \/ CheckInstallation
    \/ ManualDecide
    \/ \E ok \in BOOLEAN : ManualCheckCallback(ok)

SpecConcurrent == InitConcurrent /\ [][NextConcurrent]_vars

\* One format request at a time with the plugin not installed: the runtime
\* is the configured path, a python of the PATH or none.  The steps are those
\* of the provider and of its formatting subprocess, and the user's edits of
\* the setting.
InitProcess ==
    /\ Init
    /\ extState = "absent"

NextProcess ==
    \/ \E r \in SoloRequests : StartFormat(r)
    \/ \E r \in SoloRequests : DecideCheck(r)
    \/ \E r \in SoloRequests, ok \in BOOLEAN : CheckCallback(r, ok)
    \/ \E r \in SoloRequests : ProcError(r)
    \/ \E r \in SoloRequests, e \in ExitEvents : ProcExit(r, e.code, e.stdout, e.stderr)
    \/ \E r \in SoloRequests, e \in KillEvents : ProcKilled(r, e.signal, e.stdout, e.stderr)
    \/ \E r \in SoloRequests, errno \in SpawnErrnos : ProcCloseAfterError(r, errno)
    \/ \E r \in SoloRequests : Cancel(r)
    \/ \E value \in MainConfigValues : SetPythonPath(value)

SpecProcess == InitProcess /\ [][NextProcess]_vars

\* The subprocess of request r raises its completion event.
CompletionEvent(r) ==
    \/ ProcError(r)
    \/ \E e \in ExitEvents : ProcExit(r, e.code, e.stdout, e.stderr)
    \/ \E e \in KillEvents : ProcKilled(r, e.signal, e.stdout, e.stderr)

\* SpecProcess with the progress the event loop and the subprocesses give:
\* a queued continuation runs, the availability check calls back, a spawned
\* formatter raises a completion event, and 'close' follows 'error'.
SpecSettle ==
    /\ InitProcess
    /\ [][NextProcess]_vars
    /\ \A r \in SoloRequests :
           /\ WF_vars(DecideCheck(r))
           /\ WF_vars(\E ok \in BOOLEAN : CheckCallback(r, ok))
           /\ WF_vars(CompletionEvent(r))
           /\ WF_vars(\E errno \in SpawnErrnos : ProcCloseAfterError(r, errno))

\* Runtime resolution over the whole range of its inputs: every value of
\* the setting, every state and report of the plugin, both platforms and
\* every outcome of the probes of the platform's executables.  No runtime
\* has mdformat installed, so every request ends at its availability check.
ResolveProbes(windows) ==
    {p \in [AllCommands -> ProbeOutputs] :
        \A c \in AllCommands :
            (\A i \in 1..Len(CommonPythons(windows)) : CommonPythons(windows)[i] # c)
                => p[c] = ProbeThrows}

InitResolve ==
    /\ mdformatFound = Undefined
    /\ pythonPathUsedForLastCheck = Undefined
    /\ userPythonPath \in ConfigValues
    /\ extState \in {"absent", "activating", "active"}
    /\ execCommand \in (IF extState = "absent" THEN {<< >>} ELSE ExecCommands)
    /\ isWindows \in BOOLEAN
    /\ options = DefaultOptions
    /\ probeOutput \in ResolveProbes(isWindows)
    /\ NothingRunning

NextResolve ==
    \/ \E r \in SoloRequests : StartFormat(r)
    \/ \E r \in SoloRequests : ResumeResolution(r)
    \/ \E r \in SoloRequests : NoInterpreter(r)
    \/ \E r \in SoloRequests : SpawnCheck(r)
    \/ \E r \in SoloRequests : CheckCallback(r, FALSE)
    \/ \E result \in {"active", "activeNoSettings", "failed"} : ActivationCompletes(result)

SpecResolve == InitResolve /\ [][NextResolve]_vars

\* The argument list over the whole range of the settings it is built
\* from: the settings are drawn once and stay as they are, the configured
\* runtime exists and has mdformat installed, and the formatting
\* subprocesses of two concurrent requests fail to start.
InitArgs ==
    /\ mdformatFound = Undefined
    /\ pythonPathUsedForLastCheck = Undefined
    /\ userPythonPath = "/opt/py"
    /\ extState = "absent"
    /\ execCommand = << >>
    /\ isWindows = FALSE
    /\ options \in Options
    /\ probeOutput = NoPython
    /\ NothingRunning

NextArgs ==
    \/ \E r \in PairRequests : StartFormat(r)
    \/ \E r \in PairRequests : SpawnCheck(r)
    \/ \E r \in PairRequests : CacheHit(r)
    \/ \E r \in PairRequests : CheckCallback(r, TRUE)
    \/ \E r \in PairRequests : ProcError(r)
    \/ \E r \in PairRequests, errno \in SpawnErrnos : ProcCloseAfterError(r, errno)

SpecArgs == InitArgs /\ [][NextArgs]_vars

\* ------------------------------------------------------------------ claims

\* The step of request r that continues after the resolution (lines 240-266).
Decides(r) == pc[r] = "resolved" /\ pc'[r] # "resolved"

\* The cache holds an Available verdict for runtime R.
CacheIs(found, lastPath, R) == found = "true" /\ lastPath = R

ErrorsShown(r) == {i \in 1..Len(shown[r]) : shown[r][i].sink = "error"}

\* C1: in a format request whose resolved runtime is R, the availability
\* check is not spawned when the cache is (R, Available) and is spawned in
\* every other cache state (Unknown, Unavailable, another runtime).
C1_VerifierIffNoCacheHit ==
    [][\A r \in Requests :
          (Decides(r) /\ ~Falsy(interp[r])) =>
              /\ (nCheck'[r] = nCheck[r] + 1)
                     <=> ~CacheIs(mdformatFound, pythonPathUsedForLastCheck, interp[r])
              /\ (nCheck'[r] = nCheck[r] + 1) <=> (pc'[r] = "checking")
              /\ nCheck'[r] \in {nCheck[r], nCheck[r] + 1}]_vars

\* C1 witness: a request that found the cache at (R, Available) spawned the
\* formatter without a check.
C1_Witness ==
    \E r \in Requests :
        /\ pc[r] = "formatting"
        /\ nCheck[r] = 0
        /\ CacheIs(mdformatFound, pythonPathUsedForLastCheck, interp[r])

\* A step that writes the cache: the exec callback of a check (of a format
\* request or of the command), proc.on("error"), the plugin's change event,
\* the start of the checkInstallation command.
CacheWriterStep ==
    \/ \E r \in Requests, ok \in BOOLEAN : CheckCallback(r, ok)
    \/ \E r \in Requests : ProcError(r)
    \/ \E cmd \in ExecCommands : DidChangeExecutionDetails(cmd)
    \/ CheckInstallation
    \/ \E ok \in BOOLEAN : ManualCheckCallback(ok)

Closes(r) == pc[r] = "formatting" /\ pc'[r] = "done"

\* The notification the step adds for request r, when it adds exactly one.
AddsOne(r) == Len(shown'[r]) = Len(shown[r]) + 1
Added(r) == shown'[r][Len(shown'[r])]

\* C3 as stated: a formatting subprocess that exits with a non-zero code
\* yields a reported error that contains the accumulated stderr text (the
\* generic 'exited with code N' message when stderr is empty) and leaves
\* both cache fields as they were.
C3_ErrorContainsStderr ==
    [][\A r \in Requests : Closes(r) => \A e \in ExitEvents :
          (e.code # 0 /\ ~cancelled[r] /\ ProcExit(r, e.code, e.stdout, e.stderr)) =>
              /\ outcome'[r] = ToolReportedFailure
              /\ AddsOne(r)
              /\ Added(r).sink = "error"
              /\ IF e.stderr # << >>
                 THEN Includes(Added(r).text, e.stderr)
                 ELSE Includes(Added(r).text, ExitedWithCode(e.code))
              /\ UNCHANGED cache]_vars

\* C3 amended: the reported error contains the accumulated stderr text with
\* its leading and trailing whitespace removed, and the generic 'exited with
\* code N' message when nothing is left of stderr after that; both cache
\* fields are as they were, so a verdict that was Available is Available.
C3_ErrorContainsTrimmedStderr ==
    [][\A r \in Requests : Closes(r) => \A e \in ExitEvents :
          (e.code # 0 /\ ~cancelled[r] /\ ProcExit(r, e.code, e.stdout, e.stderr)) =>
              /\ outcome'[r] = ToolReportedFailure
              /\ AddsOne(r)
              /\ Added(r).sink = "error"
              /\ IF Trim(e.stderr) # << >>
                 THEN /\ Includes(Added(r).text, Trim(e.stderr))
                      /\ ~Includes(Added(r).text, ExitedWithCode(e.code))
                 ELSE Includes(Added(r).text, ExitedWithCode(e.code))
              /\ UNCHANGED cache]_vars

\* C3 witness: a call ended with the tool's failure and the cache still
\* holds the Available verdict for the runtime it ran.
C3_Witness ==
    \E r \in Requests :
        /\ pc[r] = "done"
        /\ outcome[r] = ToolReportedFailure
        /\ CacheIs(mdformatFound, pythonPathUsedForLastCheck, exe[r])
        /\ Len(shown[r]) = 1
        /\ Includes(shown[r][1].text, <<"a">>)

\* The step in which proc.on("error") runs for request r.
StartFails(r) == pc[r] = "formatting" /\ pc'[r] = "errored"

\* C4: when the formatting subprocess of a request for runtime R cannot be
\* started, the outcome is ProcessStartFailure and the cache becomes
\* (R, Unavailable), whatever it held; a request for R then needs a check.
C4_StartFailureDowngrades ==
    [][\A r \in Requests :
          StartFails(r) =>
              /\ outcome'[r] = ProcessStartFailure
              /\ exe[r] = interp[r]
              /\ mdformatFound' = "false"
              /\ pythonPathUsedForLastCheck' = interp[r]
              /\ NeedsCheck(mdformatFound', pythonPathUsedForLastCheck', interp[r])]_vars

\* C4 witness: the start failed in a call that had found the verdict
\* Available in the cache (no check of its own), and the cache is now
\* (R, Unavailable).
C4_Witness ==
    \E r \in Requests :
        /\ pc[r] = "errored"
        /\ nCheck[r] = 0
        /\ outcome[r] = ProcessStartFailure
        /\ mdformatFound = "false"
        /\ pythonPathUsedForLastCheck = interp[r]

\* C5 as stated: a call that spawned the formatting subprocess and whose
\* token was raised before the process ended settles as Cancelled and has
\* raised no error notification.  (Cancel acts only on an unsettled call.)
C5_CancelledWhenTokenRaised ==
    \A r \in Requests :
        (outcome[r] # Unsettled /\ cancelled[r] /\ nFmt[r] > 0) =>
            /\ outcome[r] = Cancelled
            /\ ErrorsShown(r) = {}

\* C5 amended: if the formatting subprocess was started and the token is
\* raised before its close event, the call settles as Cancelled with no
\* error notification raised during the call and no edit, whatever code or
\* signal the process ended with; a subprocess that could not be started is
\* reported as ProcessStartFailure with its error also when the token was
\* raised.
C5_CancelledWhenStartedAndTokenRaised ==
    [][\A r \in Requests :
          /\ (pc[r] = "formatting" /\ pc'[r] = "done" /\ cancelled[r]) =>
                 /\ outcome'[r] = Cancelled
                 /\ {i \in 1..Len(shown'[r]) : shown'[r][i].sink = "error"} = {}
                 /\ edits'[r] = << >>
          /\ (StartFails(r) /\ cancelled[r]) =>
                 /\ outcome'[r] = ProcessStartFailure
                 /\ AddsOne(r)
                 /\ Added(r).sink = "error"]_vars

\* C5 witness: a cancelled call whose subprocess ran to its close event.
C5_Witness ==
    \E r \in Requests :
        /\ pc[r] = "done"
        /\ cancelled[r]
        /\ nFmt[r] = 1
        /\ outcome[r] = Cancelled

\* C6: the outcome of a formatting subprocess is ProcessStartFailure if it
\* could not be started; else Cancelled if the token is raised at the close
\* event; else TerminatedBySignal if a signal ended it; else
\* ToolReportedFailure if the code is not 0; else Success with the stdout.
C6_ClassificationOrder ==
    [][\A r \in Requests :
          /\ StartFails(r) => outcome'[r] = ProcessStartFailure
          /\ (pc[r] = "errored" /\ pc'[r] = "done") => outcome'[r] = ProcessStartFailure
          /\ Closes(r) => \A e \in ExitEvents :
                 ProcExit(r, e.code, e.stdout, e.stderr) =>
                     /\ outcome'[r] = (IF cancelled[r] THEN Cancelled
                                       ELSE IF e.code # 0 THEN ToolReportedFailure
                                       ELSE Success)
                     /\ \A i \in 1..Len(edits'[r]) : edits'[r][i].newText = e.stdout
                     /\ outcome'[r] # Success => edits'[r] = << >>
          /\ Closes(r) => \A k \in KillEvents :
                 ProcKilled(r, k.signal, k.stdout, k.stderr) =>
                     /\ outcome'[r] = (IF cancelled[r] THEN Cancelled ELSE TerminatedBySignal)
                     /\ edits'[r] = << >>]_vars

\* C6 witness: a run that a signal ended, reported as such.
C6_Witness ==
    \E r \in Requests :
        /\ pc[r] = "done"
        /\ outcome[r] = TerminatedBySignal
        /\ ~cancelled[r]
        /\ nFmt[r] = 1

\* C7: when the resolution returns no runtime the call reports the 'no
\* runtime' message, returns no edit, spawns neither subprocess and leaves
\* the cache as it was (as do the steps of the resolution before it).
C7_NoRuntimeIsTerminal ==
    [][\A r \in Requests :
          /\ (Decides(r) /\ Falsy(interp[r])) =>
                 /\ pc'[r] = "done"
                 /\ outcome'[r] = NoRuntime
                 /\ shown'[r] = <<ErrNoInterpreter>>
                 /\ edits'[r] = << >>
                 /\ nCheck'[r] = 0
                 /\ nFmt'[r] = 0
                 /\ UNCHANGED cache
          /\ (pc[r] \in {"idle", "done", "awaitActivate"} /\ pc'[r] # pc[r]) =>
                 /\ nCheck'[r] = 0
                 /\ nFmt'[r] = 0
                 /\ UNCHANGED cache]_vars

\* C7 witness: a call ended for want of a runtime while the cache holds a
\* verdict of an earlier check.
C7_Witness ==
    \E r \in Requests :
        /\ pc[r] = "done"
        /\ outcome[r] = NoRuntime
        /\ mdformatFound = "true"
        /\ pythonPathUsedForLastCheck # Undefined

\* C8: the formatting subprocess of a request is spawned only after the
\* request's resolution returned a runtime and only on an Available verdict
\* for that runtime: in the step that found it in the cache, or in the step
\* in which the request's own check completed with it.  No check is in
\* flight for the request then, and a check that failed ends the request.
C8_ResolveCheckInvoke ==
    [][\A r \in Requests :
          /\ nFmt'[r] > nFmt[r] =>
                 /\ pc[r] \in {"resolved", "checking"}
                 /\ pc'[r] = "formatting"
                 /\ ~Falsy(interp[r])
                 /\ CacheIs(mdformatFound', pythonPathUsedForLastCheck', interp[r])
                 /\ exe'[r] = interp[r]
                 /\ pc[r] = "resolved" =>
                        /\ nCheck'[r] = nCheck[r]
                        /\ CacheIs(mdformatFound, pythonPathUsedForLastCheck, interp[r])
                 /\ pc[r] = "checking" => nCheck[r] = 1
          /\ pc'[r] \in {"awaitActivate", "resolved", "checking"} => nFmt'[r] = 0
          /\ pc'[r] \in {"awaitActivate", "resolved"} => nCheck'[r] = 0
          /\ (pc[r] = "checking" /\ pc'[r] # "checking" /\ mdformatFound' # "true") =>
                 /\ pc'[r] = "done"
                 /\ nFmt'[r] = 0
                 /\ outcome'[r] = ToolUnavailable]_vars

\* C8 witness: a request runs the formatter after its own check completed.
C8_Witness ==
    \E r \in Requests :
        /\ pc[r] = "formatting"
        /\ nCheck[r] = 1
        /\ nFmt[r] = 1

\* C9 as stated: on Success the call returns no edit exactly when the output
\* equals the input, and otherwise one edit that replaces the full range of
\* the original text with the output.
C9_EditUnlessEqual ==
    [][\A r \in Requests : Closes(r) => \A e \in ExitEvents :
          (e.code = 0 /\ ~cancelled[r] /\ ProcExit(r, e.code, e.stdout, e.stderr)) =>
              /\ outcome'[r] = Success
              /\ edits'[r] = IF e.stdout = originalText[r]
                             THEN << >>
                             ELSE <<[from |-> 0, to |-> Len(originalText[r]),
                                     newText |-> e.stdout]>>]_vars

\* C9 amended: on Success the call returns no edit exactly when the output
\* equals the input or the output is empty, and for every other output one
\* edit that replaces the full range of the original text with the output.
C9_EditUnlessEqualOrEmpty ==
    [][\A r \in Requests : Closes(r) => \A e \in ExitEvents :
          (e.code = 0 /\ ~cancelled[r] /\ ProcExit(r, e.code, e.stdout, e.stderr)) =>
              /\ outcome'[r] = Success
              /\ edits'[r] = IF e.stdout = originalText[r] \/ e.stdout = << >>
                             THEN << >>
                             ELSE <<[from |-> 0, to |-> Len(originalText[r]),
                                     newText |-> e.stdout]>>]_vars

\* C9 witness: a successful call returned one full replacement of a
\* non-empty document by a different text.
C9_Witness ==
    \E r \in Requests :
        /\ pc[r] = "done"
        /\ outcome[r] = Success
        /\ Len(edits[r]) = 1
        /\ originalText[r] # << >>
        /\ edits[r][1].newText # originalText[r]
        /\ edits[r][1].to = Len(originalText[r])

\* C10 as stated: the first format request started after a plugin change
\* event (with no availability check spawned since the event) verifies
\* afresh before it invokes the tool; it is never served from the cache.
C10_NextRequestVerifies ==
    [][\A r \in Requests :
          (Decides(r) /\ afterChange[r] /\ ~Falsy(interp[r])) =>
              /\ nCheck'[r] = nCheck[r] + 1
              /\ pc'[r] # "formatting"]_vars

\* C11: the plugin's change event sets the verdict to Unknown and changes
\* nothing else of the extension: the runtime of the last check keeps its
\* value, and every format request and manual check in flight keeps its
\* position, its runtime, its token, its outcome, its messages and its
\* subprocess counts.
C11_EventTouchesOnlyVerdict ==
    [][(\E cmd \in ExecCommands : DidChangeExecutionDetails(cmd)) =>
          /\ mdformatFound' = Undefined
          /\ pythonPathUsedForLastCheck' = pythonPathUsedForLastCheck
          /\ UNCHANGED <<pc, interp, exe, cancelled, outcome, edits, shown, nCheck, nFmt,
                         originalText, config, args>>
          /\ UNCHANGED <<mpc, minterp, mshown>>
          /\ UNCHANGED <<userPythonPath, extState, isWindows, options, probeOutput>>]_vars

\* C11 witness: the event came while a formatting subprocess ran; the
\* verdict is Unknown beside the runtime of the last check.
C11_Witness ==
    /\ changePending
    /\ mdformatFound = Undefined
    /\ pythonPathUsedForLastCheck # Undefined
    /\ \E r \in Requests :
           /\ pc[r] = "formatting"
           /\ exe[r] = pythonPathUsedForLastCheck
           /\ outcome[r] = Unsettled

\* The step in which the resolution of request r returns.
Resolves(r) == pc[r] # "resolved" /\ pc'[r] = "resolved"

\* The setting is set: not null, not empty, not the sentinel "null".
ConfigIsSet(cfg) == cfg \notin {Undefined, "", "null"}

\* The plugin is present and active with its settings and reports a command.
PluginReports(ext, cmd) == ext = "active" /\ cmd # << >>

\* The probe output contains the runtime's name in any mix of cases.
ContainsName(out) ==
    /\ out # ProbeThrows
    /\ \E i \in 1..Len(out) :
          /\ i + 5 <= Len(out)
          /\ out[i] \in {"p", "P"} /\ out[i + 1] \in {"y", "Y"}
          /\ out[i + 2] \in {"t", "T"} /\ out[i + 3] \in {"h", "H"}
          /\ out[i + 4] \in {"o", "O"} /\ out[i + 5] \in {"n", "N"}

\* The platform's ordered list of common executables.
PlatformList(windows) ==
    IF windows THEN <<"python.exe", "python3.exe", "py.exe">> ELSE <<"python3", "python">>

\* The first executable of the platform's list that qualifies, or None.
FirstQualifying(windows, probes) ==
    LET list == PlatformList(windows)
        ok == {i \in 1..Len(list) : ContainsName(probes[list[i]])}
    IN  IF ok = {} THEN Undefined
        ELSE list[CHOOSE i \in ok : \A j \in ok : i <= j]

\* The runtime the priority order of the three sources yields.
ByPriority(cfg, ext, cmd, windows, probes) ==
    IF ConfigIsSet(cfg) /\ cfg \in OnDisk THEN cfg
    ELSE IF PluginReports(ext, cmd) THEN cmd[1]
    ELSE FirstQualifying(windows, probes)

\* C12 as stated: the resolution returns the configured path if it is set
\* and exists on disk, otherwise the plugin's command if the plugin is
\* present, active and reports one, otherwise the first probed common
\* executable, otherwise None; and a configured path that does not exist on
\* disk is never the value returned.
C12_PriorityAndNeverInvalidPath ==
    [][\A r \in Requests :
          Resolves(r) =>
              /\ interp'[r] = ByPriority(userPythonPath, extState, execCommand,
                                         isWindows, probeOutput)
              /\ (ConfigIsSet(userPythonPath) /\ userPythonPath \notin OnDisk)
                     => interp'[r] # userPythonPath]_vars

\* C12 amended: the priority order as stated; a configured path that does
\* not exist on disk is never returned by the first source, and is the
\* value returned only when the plugin reports that same path or, with no
\* report of the plugin, when it is the name of the first probed executable
\* that qualifies.
C12_PriorityOrder ==
    [][\A r \in Requests :
          Resolves(r) =>
              /\ interp'[r] = ByPriority(userPythonPath, extState, execCommand,
                                         isWindows, probeOutput)
              /\ (ConfigIsSet(userPythonPath) /\ userPythonPath \in OnDisk)
                     => interp'[r] = userPythonPath
              /\ (ConfigIsSet(userPythonPath) /\ userPythonPath \notin OnDisk
                    /\ interp'[r] = userPythonPath) =>
                     \/ PluginReports(extState, execCommand) /\ execCommand[1] = userPythonPath
                     \/ /\ ~PluginReports(extState, execCommand)
                        /\ FirstQualifying(isWindows, probeOutput) = userPythonPath]_vars

\* C12 witness: the setting names a file that does not exist, the plugin is
\* active and reports another command, and the request resolved that one.
C12_Witness ==
    \E r \in Requests :
        /\ pc[r] = "checking"
        /\ userPythonPath = "/missing/py"
        /\ extState = "active"
        /\ Len(execCommand) > 0
        /\ interp[r] = execCommand[1]
        /\ interp[r] # userPythonPath

\* C13: when the resolution reaches its fallback step, it skips every
\* executable of the platform's list whose probe fails or prints no runtime
\* name (in any case) and returns, as the bare command, the first one in
\* list order whose probe prints the name; None when there is none.
C13_FirstQualifyingProbe ==
    [][\A r \in Requests :
          (/\ Resolves(r)
           /\ ~(ConfigIsSet(userPythonPath) /\ userPythonPath \in OnDisk)
           /\ ~PluginReports(extState, execCommand)) =>
              LET list == PlatformList(isWindows)
              IN  /\ \A i \in 1..Len(list) :
                         (/\ ContainsName(probeOutput[list[i]])
                          /\ \A j \in 1..(i - 1) : ~ContainsName(probeOutput[list[j]]))
                             => interp'[r] = list[i]
                  /\ (\A i \in 1..Len(list) : ~ContainsName(probeOutput[list[i]]))
                         => interp'[r] = Undefined
                  /\ interp'[r] # Undefined =>
                         \E i \in 1..Len(list) : interp'[r] = list[i]]_vars

\* C13 witness: on Windows the first executable's probe failed, the second
\* printed a text without the name, and the third, which printed the name
\* in capitals, was returned.
C13_Witness ==
    \E r \in Requests :
        /\ pc[r] = "checking"
        /\ isWindows
        /\ ~PluginReports(extState, execCommand)
        /\ probeOutput["python.exe"] = ProbeThrows
        /\ probeOutput["python3.exe"] = <<"p", "y", "p", "y">>
        /\ probeOutput["py.exe"] = <<"P", "Y", "T", "H", "O", "N">>
        /\ interp[r] = "py.exe"

\* The failure outcomes other than Cancelled that follow a resolved runtime.
ReportedFailures ==
    {ToolUnavailable, ProcessStartFailure, TerminatedBySignal, ToolReportedFailure}

\* C14 as stated: a format call that has ended in a failure outcome other
\* than Cancelled has surfaced exactly one error message, now and at every
\* later moment before the next call, and it has spawned at most one
\* availability check and at most one formatting subprocess, none of them
\* after the failure.
C14_OneErrorNoRetry ==
    \A r \in Requests :
        outcome[r] \in ReportedFailures =>
            /\ Cardinality(ErrorsShown(r)) = 1
            /\ nCheck[r] <= 1
            /\ nFmt[r] <= 1
            /\ outcome[r] = ToolUnavailable => nFmt[r] = 0
            /\ pc[r] \in {"errored", "done"}

\* The step in which the availability check of request r ends in a failure.
CheckFails(r) == pc[r] = "checking" /\ pc'[r] # "checking" /\ mdformatFound' = "false"

\* C15: when the availability check of a format request fails, the request
\* ends there with no formatting subprocess and no edit, and the one error
\* it shows is the 'not available' message naming the runtime this request
\* resolved, whatever other requests and checks recorded in the cache.
C15_NotAvailableNamesOwnRuntime ==
    [][\A r \in Requests :
          CheckFails(r) =>
              /\ pc'[r] = "done"
              /\ outcome'[r] = ToolUnavailable
              /\ nFmt'[r] = 0
              /\ edits'[r] = << >>
              /\ shown'[r] = <<[sink |-> "error",
                                text |-> <<"mdformat was not found using ",
                                           "the Python interpreter ", interp[r]>>]>>
              /\ pythonPathUsedForLastCheck' = interp[r]]_vars

\* C15 witness: the check of a request failed and the request ended with
\* the error naming its own runtime, while another request, whose check
\* recorded another runtime, runs the formatter.
C15_Witness ==
    \E r, q \in Requests :
        /\ r # q
        /\ pc[r] = "done"
        /\ outcome[r] = ToolUnavailable
        /\ nCheck[r] = 1
        /\ Len(shown[r]) = 1
        /\ shown[r][1].text[3] = interp[r]
        /\ interp[q] \notin {Undefined, interp[r]}
        /\ pc[q] = "formatting"
        /\ nCheck[q] = 1

\* The steps of the manual check: it starts, its resolution has returned and
\* it goes on, it ends.
ManualStarts == mpc \in {"idle", "done"} /\ mpc' \notin {"idle", "done"}
ManualGoesOn == mpc = "resolved" /\ mpc' # "resolved"
ManualEnds == mpc # "done" /\ mpc' = "done"

InfosShown == {i \in 1..Len(mshown') : mshown'[i].sink = "info"}

\* C16 as stated: the manual check forces the verdict to Unknown when it
\* starts; after its resolution it always runs a verification for the
\* runtime resolved; when it ends it has shown an info notification exactly
\* when the verification succeeded and the 'not available' error otherwise,
\* and the cache holds (resolved runtime, verification result).
C16_ManualAlwaysVerifies ==
    [][/\ ManualStarts => mdformatFound' = Undefined
       /\ ManualGoesOn => mpc' = "checking"
       /\ ManualEnds =>
              /\ mpc = "checking"
              /\ pythonPathUsedForLastCheck' = minterp
              /\ mdformatFound' \in {"true", "false"}
              /\ InfosShown # {} <=> mdformatFound' = "true"
              /\ mdformatFound' = "false" =>
                     mshown' = <<[sink |-> "error",
                                  text |-> <<"mdformat was not found using ",
                                             "the Python interpreter ", minterp>>]>>]_vars

\* C16 amended: the manual check forces the verdict to Unknown when it
\* starts.  When its resolution returns a runtime it runs a verification
\* for that runtime whatever the cache holds, and ends with the cache at
\* (resolved runtime, verification result), one info notification naming
\* the runtime when the verification succeeded and the 'not available'
\* error naming it otherwise.  When the resolution returns no runtime it
\* runs no verification, shows an info notification and the 'not
\* available' error, and leaves the cache as it is.
C16_ManualVerifiesResolvedRuntime ==
    [][/\ ManualStarts => mdformatFound' = Undefined
       /\ (ManualGoesOn /\ ~Falsy(minterp)) => mpc' = "checking" /\ UNCHANGED cache
       /\ (ManualGoesOn /\ Falsy(minterp)) =>
              /\ mpc' = "done"
              /\ UNCHANGED cache
              /\ Len(mshown') = 2
              /\ mshown'[1].sink = "info"
              /\ mshown'[2] = [sink |-> "error",
                               text |-> <<"mdformat was not found using ",
                                          "your Python environment">>]
       /\ (ManualEnds /\ mpc = "checking") =>
              /\ ~Falsy(minterp)
              /\ pythonPathUsedForLastCheck' = minterp
              /\ mdformatFound' \in {"true", "false"}
              /\ Len(mshown') = 1
              /\ mshown'[1].sink = "info" <=> mdformatFound' = "true"
              /\ mdformatFound' = "true" => mshown'[1].text[Len(mshown'[1].text)] = minterp
              /\ mdformatFound' = "false" =>
                     mshown' = <<[sink |-> "error",
                                  text |-> <<"mdformat was not found using ",
                                             "the Python interpreter ", minterp>>]>>
       /\ ManualEnds => mpc \in {"resolved", "checking"}]_vars

\* C16 witness: a manual check that started from a cache holding a verdict
\* for a runtime ended with a verification of that same runtime that
\* succeeded, and showed the info notification.
C16_Witness ==
    /\ mpc = "done"
    /\ mdformatFound = "true"
    /\ pythonPathUsedForLastCheck = minterp
    /\ Len(mshown) = 1
    /\ mshown[1].sink = "info"
    /\ \E r \in Requests : pc[r] = "done" /\ outcome[r] = Success /\ interp[r] = minterp

\* ------------------------------------------------------------------- C17

\* The step spawns the formatting subprocess of request r.
Spawns(r) == nFmt'[r] = nFmt[r] + 1

\* Request r has spawned its formatting subprocess in its current call.
Spawned(r) == pc[r] \in {"formatting", "errored", "done"} /\ nFmt[r] > 0 /\ args[r] # << >>

\* The wrap option is not 'keep'.
WrapIsSet(o) == o.wrap # WrapString("keep")

\* The list a has the order the claim gives for the options o.
InClaimedOrder(a, o) ==
    LET k == IF WrapIsSet(o) THEN 2 ELSE 0
        n == IF o.noValidate THEN 1 ELSE 0
    IN  /\ Len(a) = 2 + k + 2 + n + Len(o.args) + 1
        /\ a[1] = "-m"
        /\ a[2] = "mdformat"
        /\ WrapIsSet(o) => a[3] = "--wrap" /\ a[4] = String(o.wrap)
        /\ a[3 + k] = "--end-of-line"
        /\ a[4 + k] = o.endOfLine
        /\ o.noValidate => a[5 + k] = "--no-validate"
        /\ SubSeq(a, 5 + k + n, Len(a) - 1) = o.args
        /\ a[Len(a)] = "-"

\* C17: the argument list of every formatting subprocess is, in this order,
\* '-m', 'mdformat', '--wrap' and its value only when the wrap option is not
\* 'keep', '--end-of-line' and its value always, '--no-validate' only when
\* the option is set, the configured extra arguments in their order, and a
\* final '-'; two requests with equal options pass equal lists.
C17_ArgumentOrder ==
    /\ \A r \in Requests : Spawned(r) => InClaimedOrder(args[r], config[r])
    /\ \A r1, r2 \in Requests :
           Spawned(r1) /\ Spawned(r2) /\ config[r1] = config[r2] => args[r1] = args[r2]

\* C17 witness: two requests have spawned their subprocesses with a numeric
\* wrap value, the validation switched off and two extra arguments, one of
\* them a dash.
C17_Witness ==
    /\ Spawned(1) /\ Spawned(2)
    /\ config[1] = config[2]
    /\ config[1].wrap = WrapNumber(88)
    /\ config[1].noValidate
    /\ config[1].args = <<"-", "--number">>
    /\ args[1] = <<"-m", "mdformat", "--wrap", "88", "--end-of-line", config[1].endOfLine,
                   "--no-validate", "-", "--number", "-">>
    /\ args[2] = args[1]

\* ------------------------------------------------------------------- C18

\* The availability check of request r completes.
CheckCompletes(r) == pc[r] = "checking" /\ pc'[r] # "checking"

\* The verification of the manual check completes.
ManualCompletes == mpc = "checking" /\ mpc' = "done"

\* The step is a verification, or a failed start, of runtime R.
ProducesVerdictFor(R) ==
    \/ \E r \in Requests : CheckCompletes(r) /\ interp[r] = R
    \/ ManualCompletes /\ minterp = R
    \/ \E r \in Requests : StartFails(r) /\ exe[r] = R

\* C18: under every interleaving of format requests, manual checks and
\* plugin change events, every completed verification writes the runtime it
\* checked and its result in the same step; a step that records a verdict
\* of Available or Unavailable, or that changes the stored runtime, is a
\* step that produced that verdict for the runtime it stores beside it, so
\* the pair a request reads when it decides is never torn.
C18_PairWrittenTogether ==
    [][/\ \A r \in Requests :
              CheckCompletes(r) =>
                  /\ pythonPathUsedForLastCheck' = interp[r]
                  /\ mdformatFound' \in {"true", "false"}
       /\ ManualCompletes =>
              /\ pythonPathUsedForLastCheck' = minterp
              /\ mdformatFound' \in {"true", "false"}
       /\ \A r \in Requests :
              StartFails(r) => cache' = <<"false", exe[r]>>
       /\ pythonPathUsedForLastCheck' # pythonPathUsedForLastCheck =>
              /\ mdformatFound' \in {"true", "false"}
              /\ ProducesVerdictFor(pythonPathUsedForLastCheck')
       /\ (mdformatFound' # mdformatFound /\ mdformatFound' \in {"true", "false"}) =>
              ProducesVerdictFor(pythonPathUsedForLastCheck')]_vars

\* C18 witness: the check of a request recorded Unavailable for its
\* runtime, then a manual check recorded Available for another runtime,
\* which is the pair the cache holds, while the check of a second request
\* for the first runtime is still running.
C18_Witness ==
    /\ pc[2] = "done" /\ outcome[2] = ToolUnavailable
    /\ pc[1] = "checking" /\ interp[1] = interp[2]
    /\ mpc = "done"
    /\ minterp \notin {Undefined, interp[1]}
    /\ cache = <<"true", minterp>>

\* ------------------------------------------------------------------- C19

\* C19: the runtime a format request spawns the formatting subprocess with
\* is the runtime the same request resolved, it is the runtime the cache
\* holds after the step with an Available verdict, and that verdict comes
\* from the request's own check completing in this step or from the pair
\* the request read when it decided; the executable of a running subprocess
\* stays the request's runtime whatever other requests, manual checks and
\* plugin change events write to the cache.
C19_SpawnsOwnRuntime ==
    [][\A r \in Requests :
          /\ Spawns(r) =>
                 /\ ~Falsy(interp[r])
                 /\ exe'[r] = interp[r]
                 /\ exe'[r] = pythonPathUsedForLastCheck'
                 /\ mdformatFound' = "true"
                 /\ \/ CheckCompletes(r)
                    \/ pc[r] = "resolved" /\ cache = <<"true", interp[r]>> /\ UNCHANGED cache
          /\ pc'[r] \in {"formatting", "errored"} => exe'[r] = interp'[r]]_vars

\* C19 witness: a request runs the formatter with its own runtime after its
\* own check, and the cache holds that verdict, although the check of
\* another request recorded Unavailable for another runtime; no manual
\* check ran.
C19_Witness ==
    \E r, q \in Requests :
        /\ mpc = "idle"
        /\ pc[r] = "formatting" /\ nCheck[r] = 1
        /\ exe[r] = interp[r]
        /\ cache = <<"true", interp[r]>>
        /\ pc[q] = "done" /\ nCheck[q] = 1 /\ outcome[q] = ToolUnavailable
        /\ interp[q] \notin {Undefined, interp[r]}

\* ------------------------------------------------------------------- C20

Outcomes ==
    {Success, ToolReportedFailure, ProcessStartFailure, TerminatedBySignal, Cancelled,
     NoRuntime, ToolUnavailable}

\* The 'close' event of the subprocess of request r follows its 'error' event.
CloseFollowsError(r) == pc[r] = "errored" /\ pc'[r] = "done"

\* Every format call eventually settles.
EventuallySettles ==
    \A r \in SoloRequests : (pc[r] # "idle") ~> (outcome[r] \in Outcomes)

\* A call settles once: its outcome stays until the next call starts.
SettlesOnce ==
    [][\A r \in SoloRequests :
          outcome[r] \in Outcomes =>
              \/ outcome'[r] = outcome[r]
              \/ pc[r] = "done" /\ pc'[r] \in {"awaitActivate", "resolved"}]_vars

\* The 'close' event that follows an 'error' event changes neither the
\* outcome nor the cache.
LaterEventKeepsOutcomeAndCache ==
    [][\A r \in SoloRequests :
          CloseFollowsError(r) => outcome'[r] = outcome[r] /\ UNCHANGED cache]_vars

\* The 'close' event that follows an 'error' event shows no message.
LaterEventShowsNothing ==
    [][\A r \in SoloRequests : CloseFollowsError(r) => shown'[r] = shown[r]]_vars

\* C20 as stated: when every subprocess raises its completion event, every
\* format call eventually settles, once and with one of the seven outcomes,
\* and the 'close' event that follows an 'error' event of the same
\* subprocess changes neither the outcome nor the cache nor the messages
\* shown.
C20_SettlesOnceLaterEventInert ==
    /\ EventuallySettles
    /\ SettlesOnce
    /\ LaterEventKeepsOutcomeAndCache
    /\ LaterEventShowsNothing

====
